---- MODULE Spec2Model ----
(***************************************************************************)
(* calculate_cep (src/calculate_cep.py): the Circular Error Probable of a  *)
(* sample of 2D points, computed in binary floating point by numpy.        *)
(*                                                                         *)
(* The arithmetic is IEEE-754 binary floating point with round to nearest, *)
(* ties to even, gradual underflow, overflow to infinity and NaN, as for   *)
(* numpy's float64, in a format scaled down to Precision significand bits  *)
(* and exponents MinExp..MaxExp (float64: 53 bits, -1022..1023).  The sign *)
(* of zero is not modelled: no result of calculate_cep depends on it.      *)
(***************************************************************************)
EXTENDS Integers, Sequences, FiniteSets, TLC

\* Bounds of the model.
Precision == 13
MaxExp == 30
MaxN == 3

\* ------------------------------------------------------------------------
\* Floating point values: a finite value is m * 2^e with |m| < 2^Precision;
\* it is normal when |m| >= 2^(Precision-1), subnormal when e = EMinUlp,
\* and zero is Fin(0, 0).
MinExp == 1 - MaxExp
EMaxUlp == MaxExp - (Precision - 1)
EMinUlp == MinExp - (Precision - 1)

Pow2(n) == 2^n
Abs(n) == IF n < 0 THEN -n ELSE n
Sign(n) == IF n < 0 THEN -1 ELSE IF n > 0 THEN 1 ELSE 0
Max(a, b) == IF a >= b THEN a ELSE b

NaN == [cls |-> "nan", m |-> 0, e |-> 0]
Inf(sgn) == [cls |-> "inf", m |-> sgn, e |-> 0]
PosInf == Inf(1)
NegInf == Inf(-1)
Fin(m, e) == [cls |-> "fin", m |-> m, e |-> e]
Zero == Fin(0, 0)

IsNaN(a) == a.cls = "nan"
IsInf(a) == a.cls = "inf"
IsFinite(a) == a.cls = "fin"
IsZero(a) == a.cls = "fin" /\ a.m = 0

RECURSIVE BitLen(_)
BitLen(n) == IF n = 0 THEN 0 ELSE 1 + BitLen(n \div 2)

RECURSIVE UpShift(_, _)
UpShift(num, den) == IF 2 * num >= den THEN 1 ELSE 1 + UpShift(2 * num, den)

\* floor(log2(num / den)), num > 0, den > 0
LeadPos(num, den) ==
    IF num >= den THEN BitLen(num \div den) - 1 ELSE -UpShift(num, den)

\* The float nearest to sgn * (num / den) * 2^e, ties to even.
Round(sgn, num, den, e) ==
    IF num = 0 THEN Zero
    ELSE LET L == LeadPos(num, den)
             k == Max(L - (Precision - 1), EMinUlp - e)
         IN  IF k >= L + 2 THEN Zero
             ELSE LET n2 == IF k >= 0 THEN num ELSE num * Pow2(-k)
                      d2 == IF k >= 0 THEN den * Pow2(k) ELSE den
                      q == n2 \div d2
                      r == n2 % d2
                      up == IF 2 * r > d2 \/ (2 * r = d2 /\ q % 2 = 1)
                            THEN 1 ELSE 0
                      m == q + up
                      carry == m = Pow2(Precision)
                      m2 == IF carry THEN Pow2(Precision - 1) ELSE m
                      e2 == IF carry THEN e + k + 1 ELSE e + k
                  IN  IF m = 0 THEN Zero
                      ELSE IF e2 > EMaxUlp THEN Inf(sgn)
                      ELSE Fin(sgn * m2, e2)

FromInt(n) == Round(Sign(n), Abs(n), 1, 0)
FromRat(num, den) == Round(Sign(num), Abs(num), den, 0)

fneg(a) == IF a.cls = "nan" THEN NaN ELSE [a EXCEPT !.m = -a.m]

fadd(a, b) ==
    IF a.cls = "nan" \/ b.cls = "nan" THEN NaN
    ELSE IF a.cls = "inf" /\ b.cls = "inf" THEN (IF a.m = b.m THEN a ELSE NaN)
    ELSE IF a.cls = "inf" THEN a
    ELSE IF b.cls = "inf" THEN b
    ELSE IF a.m = 0 THEN b
    ELSE IF b.m = 0 THEN a
    ELSE LET hi == IF a.e >= b.e THEN a ELSE b
             lo == IF a.e >= b.e THEN b ELSE a
             d == hi.e - lo.e
         IN  IF d >= Precision + 2 THEN hi
             ELSE LET s == hi.m * Pow2(d) + lo.m
                  IN  Round(Sign(s), Abs(s), 1, lo.e)

fsub(a, b) == fadd(a, fneg(b))

fmul(a, b) ==
    IF a.cls = "nan" \/ b.cls = "nan" THEN NaN
    ELSE IF a.cls = "inf" \/ b.cls = "inf"
         THEN (IF a.m = 0 \/ b.m = 0 THEN NaN ELSE Inf(Sign(a.m) * Sign(b.m)))
    ELSE Round(Sign(a.m) * Sign(b.m), Abs(a.m) * Abs(b.m), 1, a.e + b.e)

fdiv(a, b) ==
    IF a.cls = "nan" \/ b.cls = "nan" THEN NaN
    ELSE IF a.cls = "inf"
         THEN (IF b.cls = "inf" THEN NaN
               ELSE Inf(IF b.m < 0 THEN -a.m ELSE a.m))
    ELSE IF b.cls = "inf" THEN Zero
    ELSE IF b.m = 0 THEN (IF a.m = 0 THEN NaN ELSE Inf(Sign(a.m)))
    ELSE Round(Sign(a.m) * Sign(b.m), Abs(a.m), Abs(b.m), a.e - b.e)

RECURSIVE ISqrtIter(_, _, _)
ISqrtIter(n, r, bit) ==
    IF bit = 0 THEN r
    ELSE LET c == r + bit
         IN  ISqrtIter(n, IF c * c <= n THEN c ELSE r, bit \div 2)

\* floor(sqrt(n)) for n < 2^(2 * Precision)
ISqrt(n) == ISqrtIter(n, 0, Pow2(Precision - 1))

\* The correctly rounded square root; the root of a float is never a tie,
\* never subnormal and never overflows (MaxExp >= Precision).
fsqrt(a) ==
    IF a.cls = "nan" THEN NaN
    ELSE IF a.m < 0 THEN NaN
    ELSE IF a.cls = "inf" \/ a.m = 0 THEN a
    ELSE LET t0 == 2 * Precision - BitLen(a.m)
             t == IF (a.e - t0) % 2 = 0 THEN t0 ELSE t0 - 1
             n == a.m * Pow2(t)
             r == ISqrt(n)
             m == IF n - r * r > r THEN r + 1 ELSE r
         IN  IF m = Pow2(Precision)
             THEN Fin(Pow2(Precision - 1), (a.e - t) \div 2 + 1)
             ELSE Fin(m, (a.e - t) \div 2)

\* a < b for values that are not NaN: the sign of a rounded difference is the
\* sign of the difference.
FLess(a, b) == LET d == fsub(a, b) IN d.cls # "nan" /\ d.m < 0
FLeq(a, b) == a = b \/ FLess(a, b)

\* ------------------------------------------------------------------------
\* numpy, as calculate_cep uses it.

\* data[:, j]
Column(rows, j) == [i \in 1..Len(rows) |-> rows[i][j]]

\* np.add.reduce over one axis: for fewer than 8 elements the elements are
\* added one after the other, from 0.
RECURSIVE FSumFrom(_, _, _)
FSumFrom(v, i, acc) ==
    IF i > Len(v) THEN acc ELSE FSumFrom(v, i + 1, fadd(acc, v[i]))
\* Slips: the sum that starts at the second element, and the sum that leaves
\* NaN out (np.nansum).
FSumSkipFirst(v) == FSumFrom(v, 2, Zero)
FSumSkipNaN(v) == FSumFrom(SelectSeq(v, LAMBDA a : ~IsNaN(a)), 1, Zero)
FSum(v) == FSumFrom(v, 1, Zero)

\* Slip: the mean over N - 1.
MeanOverNMinusOne(v) == fdiv(FSum(v), FromInt(Len(v) - 1))
Mean(v) == fdiv(FSum(v), FromInt(Len(v)))
\* Slip: the values themselves, the mean not subtracted.
DeviationsRaw(v) == v
Deviations(v) == LET mu == Mean(v) IN [i \in 1..Len(v) |-> fsub(v[i], mu)]
Squares(d) == [i \in 1..Len(d) |-> fmul(d[i], d[i])]

\* The divisor of the variance: max(N - ddof, 0).
\* Slip: the population divisor, ddof ignored.
DivisorPopulation(n, ddof) == FromInt(n)
Divisor(n, ddof) == FromInt(Max(n - ddof, 0))

\* np.var / np.std(v, ddof): the mean, the squared deviations from it, their
\* sum over N - ddof, and the root.
Var(v, ddof) == fdiv(FSum(Squares(Deviations(v))), Divisor(Len(v), ddof))
\* Slip: the variance returned for the standard deviation.
StdNoRoot(v, ddof) == Var(v, ddof)
Std(v, ddof) == fsqrt(Var(v, ddof))

\* np.log(0.5), correctly rounded: -0.69315 rounds as -ln 2 does in every
\* format of at most 14 bits.
\* Slip: the decimal logarithm, log10(0.5) = -0.30103.
LogHalfBase10 == Round(-1, 30103, 100000, 0)
LogHalf == Round(-1, 69315, 100000, 0)

\* ------------------------------------------------------------------------
\* calculate_cep, line by line.

Ddof == 1
Unset == [cls |-> "unset", m |-> 0, e |-> 0]

\* np.array(coordinates): a list of pairs is a 2D array, the empty list a 1D
\* array of no elements.
ToArray(coords) == [ndim |-> IF Len(coords) = 0 THEN 1 ELSE 2, rows |-> coords]

AxisStd(dat, j) == Std(Column(dat.rows, j), Ddof)
\* Slip: the root of the MEAN of the squares, as the comment of line 29 words it.
SigmaRMeanSquare(sx, sy) ==
    fsqrt(fdiv(fadd(fmul(sx, sx), fmul(sy, sy)), FromInt(2)))
SigmaR(sx, sy) == fsqrt(fadd(fmul(sx, sx), fmul(sy, sy)))
\* Slip: the sign of the factor 2 lost, the root of a negative number.
CepConstantSignSlip == fsqrt(fmul(FromInt(2), LogHalf))
CepConstant == fsqrt(fmul(FromInt(-2), LogHalf))
CepOf(c, sr) == fmul(c, sr)

\* The whole call: what it raises, or the value it returns.
calculate_cep(coords) ==
    LET dat == ToArray(coords)
    IN  IF dat.ndim # 2
        THEN [raised |-> "IndexError", value |-> Unset]
        ELSE [raised |-> "none",
              value |-> CepOf(CepConstant,
                              SigmaR(AxisStd(dat, 1), AxisStd(dat, 2)))]

\* ------------------------------------------------------------------------
\* The samples the calls are made with.
One == FromInt(1)
Tenth == FromRat(1, 10)
Huge == Fin(Pow2(Precision - 1), EMaxUlp)

Points ==
    { <<Zero, Zero>>, <<One, Zero>>, <<fneg(One), Zero>>, <<Zero, One>>,
      <<Zero, fneg(One)>>, <<Tenth, Tenth>>, <<FromInt(1000), FromInt(3)>>,
      <<Huge, Zero>>, <<NaN, Zero>>, <<Zero, PosInf>> }

RECURSIVE SeqsOf(_, _)
SeqsOf(S, n) ==
    IF n = 0 THEN {<<>>}
    ELSE {Append(s, x) : s \in SeqsOf(S, n - 1), x \in S}

Scenario == << <<One, Zero>>, <<fneg(One), Zero>>, <<Zero, One>>, <<Zero, fneg(One)>> >>

Samples == UNION {SeqsOf(Points, n) : n \in 0..MaxN} \cup {Scenario}

VARIABLES coordinates, pc, data, std_x, std_y, sigma_r, cep_constant, cep,
          result, raised

vars == <<coordinates, pc, data, std_x, std_y, sigma_r, cep_constant, cep,
          result, raised>>

Init ==
    /\ coordinates \in Samples
    /\ pc = "line21"
    /\ data = [ndim |-> 0, rows |-> <<>>]
    /\ std_x = Unset
    /\ std_y = Unset
    /\ sigma_r = Unset
    /\ cep_constant = Unset
    /\ cep = Unset
    /\ result = Unset
    /\ raised = "none"

\* line 21: data = np.array(coordinates)
Line21 ==
    /\ pc = "line21"
    /\ data' = ToArray(coordinates)
    /\ pc' = "line26"
    /\ UNCHANGED <<coordinates, std_x, std_y, sigma_r, cep_constant, cep,
                   result, raised>>

\* line 26: std_x = np.std(data[:, 0], ddof=1); indexing a 1D array with two
\* indices raises IndexError
Line26 ==
    /\ pc = "line26"
    /\ IF data.ndim # 2
       THEN /\ raised' = "IndexError"
            /\ pc' = "raised"
            /\ UNCHANGED std_x
       ELSE /\ std_x' = AxisStd(data, 1)
            /\ pc' = "line27"
            /\ UNCHANGED raised
    /\ UNCHANGED <<coordinates, data, std_y, sigma_r, cep_constant, cep, result>>

\* line 27: std_y = np.std(data[:, 1], ddof=1)
Line27 ==
    /\ pc = "line27"
    /\ std_y' = AxisStd(data, 2)
    /\ pc' = "line32"
    /\ UNCHANGED <<coordinates, data, std_x, sigma_r, cep_constant, cep,
                   result, raised>>

\* line 32: sigma_r = np.sqrt(std_x**2 + std_y**2)
Line32 ==
    /\ pc = "line32"
    /\ sigma_r' = SigmaR(std_x, std_y)
    /\ pc' = "line47"
    /\ UNCHANGED <<coordinates, data, std_x, std_y, cep_constant, cep,
                   result, raised>>

\* line 47: cep_constant = np.sqrt(-2 * np.log(0.5))
Line47 ==
    /\ pc = "line47"
    /\ cep_constant' = CepConstant
    /\ pc' = "line48"
    /\ UNCHANGED <<coordinates, data, std_x, std_y, sigma_r, cep, result, raised>>

\* line 48: cep = cep_constant * sigma_r
Line48 ==
    /\ pc = "line48"
    /\ cep' = CepOf(cep_constant, sigma_r)
    /\ pc' = "line50"
    /\ UNCHANGED <<coordinates, data, std_x, std_y, sigma_r, cep_constant,
                   result, raised>>

\* line 50: return cep
Line50 ==
    /\ pc = "line50"
    /\ result' = cep
    /\ pc' = "returned"
    /\ UNCHANGED <<coordinates, data, std_x, std_y, sigma_r, cep_constant, cep,
                   raised>>

Next == Line21 \/ Line26 \/ Line27 \/ Line32 \/ Line47 \/ Line48 \/ Line50

Spec == Init /\ [][Next]_vars

N == Len(coordinates)
Returned == pc = "returned"
Xs == Column(coordinates, 1)
Ys == Column(coordinates, 2)
Coords == {coordinates[i][j] : i \in 1..N, j \in 1..2}
AllFinite == \A c \in Coords : IsFinite(c)

\* ------------------------------------------------------------------------
\* C1: a call with fewer than two points (none, or one point of finite
\* coordinates) ends in a raised error and returns no value, not even a NaN.
C1_BelowTwoFails ==
    (pc \in {"returned", "raised"} /\ N < 2 /\ AllFinite)
        => (raised # "none" /\ result = Unset)

\* ------------------------------------------------------------------------
\* C2 as stated: for N >= 2 points with finite coordinates the returned value
\* is finite and non-negative.
C2_FiniteNonNegative ==
    (Returned /\ N >= 2 /\ AllFinite) => (IsFinite(result) /\ result.m >= 0)

\* The largest power of two B with 16 * n * B^2 <= 2^MaxExp.
SafeMagnitude(n) ==
    Fin(Pow2(Precision - 1), (MaxExp - 4 - BitLen(n)) \div 2 - (Precision - 1))
InRange ==
    \A c \in Coords :
        FLeq(c, SafeMagnitude(N)) /\ FLeq(fneg(SafeMagnitude(N)), c)

\* C2 amended: for N >= 2 points with finite coordinates of magnitude at
\* most SafeMagnitude(N) the returned value is finite and non-negative;
\* beyond that an intermediate square or sum can overflow, and the result
\* is then not finite.
C2_NonNegativeFiniteInRange ==
    (Returned /\ N >= 2 /\ AllFinite /\ InRange)
        => (IsFinite(result) /\ result.m >= 0)

C2_Witness ==
    /\ Returned /\ N >= 2 /\ AllFinite /\ InRange
    /\ \E c \in Coords : FLeq(FromInt(1000), c)
    /\ IsFinite(result) /\ result.m > 0

\* ------------------------------------------------------------------------
\* C5: for a sample with a NaN or infinite coordinate the call either raises
\* or returns NaN, never a finite or an infinite number, and the stepwise
\* run gives what the function gives for that sample.
C5_NonFinitePropagatesNaN ==
    (pc \in {"returned", "raised"} /\ ~AllFinite)
        => /\ raised # "none" \/ IsNaN(result)
           /\ ~IsFinite(result) /\ ~IsInf(result)
           /\ calculate_cep(coordinates) = [raised |-> raised, value |-> result]

C5_Witness ==
    /\ Returned /\ N >= 2
    /\ \E c \in Coords : IsInf(c)
    /\ \A c \in Coords : ~IsNaN(c)
    /\ IsNaN(result)

\* ------------------------------------------------------------------------
\* Integer samples whose whole variance computation is exact: small integer
\* coordinates with an integer mean and deviations of at most 32.
IsSmallInt(a) ==
    /\ IsFinite(a)
    /\ a.m = 0 \/ (a.e <= 0 /\ a.e > -Precision /\ a.m % Pow2(-a.e) = 0)
IntOf(a) == IF a.m = 0 THEN 0 ELSE a.m \div Pow2(-a.e)

RECURSIVE IntSum(_, _)
IntSum(v, i) == IF i > Len(v) THEN 0 ELSE IntOf(v[i]) + IntSum(v, i + 1)

RECURSIVE IntSumSqDev(_, _, _)
IntSumSqDev(v, mu, i) ==
    IF i > Len(v) THEN 0
    ELSE (IntOf(v[i]) - mu) * (IntOf(v[i]) - mu) + IntSumSqDev(v, mu, i + 1)

ExactCase(v) ==
    /\ \A i \in 1..Len(v) : IsSmallInt(v[i]) /\ Abs(IntOf(v[i])) <= 1000
    /\ IntSum(v, 1) % Len(v) = 0
    /\ \A i \in 1..Len(v) : Abs(IntOf(v[i]) - IntSum(v, 1) \div Len(v)) <= 32
SumSqDev(v) == IntSumSqDev(v, IntSum(v, 1) \div Len(v), 1)

BesselStd(v, s) ==
    /\ s = fsqrt(fdiv(FSum(Squares(Deviations(v))), FromInt(Len(v) - 1)))
    /\ ExactCase(v) =>
          /\ s = fsqrt(FromRat(SumSqDev(v), Len(v) - 1))
          /\ SumSqDev(v) > 0 => s # fsqrt(FromRat(SumSqDev(v), Len(v)))

\* C3: for N >= 2 the axis standard deviations are the Bessel-corrected
\* ones: the root of the sum of squared deviations from the axis mean over
\* N - 1 (and, where the arithmetic is exact, of exactly that rational and not
\* of the sum over N).
C3_BesselCorrected ==
    /\ (N >= 2 /\ pc \in {"line27", "line32", "line47", "line48", "line50", "returned"})
          => BesselStd(Xs, std_x)
    /\ (N >= 2 /\ pc \in {"line32", "line47", "line48", "line50", "returned"})
          => BesselStd(Ys, std_y)

C3_Witness ==
    /\ Returned /\ N = 3
    /\ ExactCase(Xs) /\ SumSqDev(Xs) = 2
    /\ std_x = One

\* ------------------------------------------------------------------------
IsNormal(a) == IsFinite(a) /\ Abs(a.m) >= Pow2(Precision - 1)

Within(a, lo, hi, den) ==
    /\ IsFinite(a) /\ a.e <= 0 /\ a.e >= -16
    /\ lo * Pow2(-a.e) < a.m * den
    /\ a.m * den < hi * Pow2(-a.e)

EqScaled(m1, e1, m2, e2) ==
    IF m1 = 0 \/ m2 = 0 THEN m1 = m2
    ELSE IF e1 >= e2
         THEN e1 - e2 <= 30 - BitLen(Abs(m1)) /\ m1 * Pow2(e1 - e2) = m2
         ELSE e2 - e1 <= 30 - BitLen(Abs(m2)) /\ m2 * Pow2(e2 - e1) = m1

\* a + b is computed without rounding error (a, b finite)
AddExact(a, b) ==
    LET s == fadd(a, b)
        hi == IF a.e >= b.e THEN a ELSE b
        lo == IF a.e >= b.e THEN b ELSE a
        d == hi.e - lo.e
    IN  /\ IsFinite(s)
        /\ \/ a.m = 0
           \/ b.m = 0
           \/ d <= Precision + 1
                /\ EqScaled(hi.m * Pow2(d) + lo.m, lo.e, s.m, s.e)

\* a * b is computed without rounding error (a, b finite)
MulExact(a, b) ==
    LET p == fmul(a, b)
    IN  IsFinite(p) /\ EqScaled(a.m * b.m, a.e + b.e, p.m, p.e)

RECURSIVE SumExactFrom(_, _, _)
SumExactFrom(v, i, acc) ==
    \/ i > Len(v)
    \/ AddExact(acc, v[i]) /\ SumExactFrom(v, i + 1, fadd(acc, v[i]))

\* The axis sum and its division by N are computed without rounding error:
\* the computed mean is the mean.
MeanExact(v) ==
    LET s == FSumFrom(v, 1, Zero)
        q == fdiv(s, FromInt(Len(v)))
    IN  /\ \A i \in 1..Len(v) : IsFinite(v[i])
        /\ SumExactFrom(v, 1, Zero)
        /\ IsFinite(q)
        /\ EqScaled(q.m * Len(v), q.e, s.m, s.e)

\* ------------------------------------------------------------------------
Permute(c, p) == [i \in 1..Len(c) |-> c[p[i]]]

Translate(c, d) ==
    [i \in 1..Len(c) |-> <<fadd(c[i][1], d[1]), fadd(c[i][2], d[2])>>]
TranslationExact(c, d) ==
    \A i \in 1..Len(c) : AddExact(c[i][1], d[1]) /\ AddExact(c[i][2], d[2])
Shifts ==
    { <<One, Zero>>, <<FromInt(3), fneg(One)>>,
      <<FromInt(Pow2(Precision) - 2), One>>, <<Tenth, fneg(Tenth)>> }

\* C7 as stated: for N >= 2 the sample with (dx, dy) added to every point
\* (the sums being representable) has the result of the sample.
C7_TranslationInvariant ==
    (Returned /\ N >= 2 /\ AllFinite) =>
        \A d \in Shifts :
            TranslationExact(coordinates, d) =>
                calculate_cep(Translate(coordinates, d)).value = result

MeansExact(c) == MeanExact(Column(c, 1)) /\ MeanExact(Column(c, 2))

\* C7 amended: the translated sample has the result of the sample when the
\* translated coordinates are representable and, for both samples and both
\* axes, the axis sum and its division by N are computed without rounding
\* error; a mean that is rounded differently in the two samples changes the
\* deviations, and the result.
C7_TranslationInvariantExactMeans ==
    (Returned /\ N >= 2 /\ AllFinite /\ MeansExact(coordinates)) =>
        \A d \in Shifts :
            (/\ TranslationExact(coordinates, d)
             /\ MeansExact(Translate(coordinates, d))) =>
                calculate_cep(Translate(coordinates, d)).value = result

C7_Witness ==
    /\ Returned /\ N = 3 /\ AllFinite /\ MeansExact(coordinates)
    /\ IsNormal(std_x) /\ IsNormal(std_y)
    /\ \E d \in Shifts :
          /\ TranslationExact(coordinates, d)
          /\ MeansExact(Translate(coordinates, d))
          /\ calculate_cep(Translate(coordinates, d)).value = result

\* ------------------------------------------------------------------------
Scale(c, k) == [i \in 1..Len(c) |-> <<fmul(c[i][1], k), fmul(c[i][2], k)>>]
ScalingExact(c, k) ==
    \A i \in 1..Len(c) : MulExact(c[i][1], k) /\ MulExact(c[i][2], k)
Factors == {FromInt(2), FromInt(3), FromRat(1, 2)}
PowersOfTwo == {FromInt(2), FromInt(4), FromRat(1, 2)}

\* C8 as stated: for N >= 2 and k > 0 the sample with every coordinate
\* multiplied by k (the products being representable) has k times the
\* result of the sample.
C8_ScalesLinearly ==
    (Returned /\ N >= 2 /\ AllFinite) =>
        \A k \in Factors :
            ScalingExact(coordinates, k) =>
                calculate_cep(Scale(coordinates, k)).value = fmul(k, result)

\* Every value the call computes on one axis, and in all.
PartialSums(v) == {FSumFrom(SubSeq(v, 1, i), 1, Zero) : i \in 1..Len(v)}
Range(f) == {f[i] : i \in DOMAIN f}
AxisValues(v) ==
    PartialSums(v) \cup {Mean(v)} \cup Range(Deviations(v))
        \cup Range(Squares(Deviations(v)))
        \cup PartialSums(Squares(Deviations(v)))
        \cup {Var(v, Ddof), Std(v, Ddof)}
AllValues(c) ==
    LET sx == Std(Column(c, 1), Ddof)
        sy == Std(Column(c, 2), Ddof)
    IN  AxisValues(Column(c, 1)) \cup AxisValues(Column(c, 2))
            \cup {fmul(sx, sx), fmul(sy, sy), fadd(fmul(sx, sx), fmul(sy, sy)),
                  SigmaR(sx, sy), CepOf(CepConstant, SigmaR(sx, sy))}
NoOverUnderflow(c) == \A v \in AllValues(c) : IsZero(v) \/ IsNormal(v)

\* C8 amended: the scaled sample has k times the result when k is a power
\* of two and no value computed for either sample overflows or is subnormal;
\* for other k (3, say) the roundings of the two computations differ.
C8_ScalesByPowersOfTwo ==
    (Returned /\ N >= 2 /\ AllFinite /\ NoOverUnderflow(coordinates)) =>
        \A k \in PowersOfTwo :
            (/\ ScalingExact(coordinates, k)
             /\ NoOverUnderflow(Scale(coordinates, k))
             /\ IsNormal(fmul(k, result)) \/ IsZero(fmul(k, result))) =>
                calculate_cep(Scale(coordinates, k)).value = fmul(k, result)

C8_Witness ==
    /\ Returned /\ N = 3 /\ AllFinite /\ NoOverUnderflow(coordinates)
    /\ IsNormal(std_x) /\ IsNormal(std_y)
    /\ \E k \in PowersOfTwo :
          /\ ScalingExact(coordinates, k)
          /\ NoOverUnderflow(Scale(coordinates, k))
          /\ IsNormal(fmul(k, result))
          /\ calculate_cep(Scale(coordinates, k)).value = fmul(k, result)

\* ------------------------------------------------------------------------
AllIdentical == \A i \in 1..N : coordinates[i] = coordinates[1]

\* C9 as stated: for N >= 2 identical points both axis standard deviations
\* are 0 and the result is exactly 0.
C9_IdenticalPointsZero ==
    (Returned /\ N >= 2 /\ AllFinite /\ AllIdentical) =>
        (std_x = Zero /\ std_y = Zero /\ result = Zero)

\* the sum of the axis over N, as computed, is the common coordinate
MeanIsCommon(v) == fdiv(FSumFrom(v, 1, Zero), FromInt(Len(v))) = v[1]

\* C9 amended: for N >= 2 identical points both axis standard deviations are
\* 0 and the result is exactly 0 when the computed axis means are the common
\* coordinates (as for [(0,0),(0,0)], and for every pair of identical points
\* whose sum does not overflow); a sum of three or more equal coordinates can
\* round, and the mean then differs from them.
C9_IdenticalPointsZeroExactMean ==
    (Returned /\ N >= 2 /\ AllFinite /\ AllIdentical
        /\ MeanIsCommon(Xs) /\ MeanIsCommon(Ys)) =>
        (std_x = Zero /\ std_y = Zero /\ result = Zero)

C9_Witness ==
    /\ Returned /\ N >= 2 /\ AllFinite /\ AllIdentical
    /\ MeanIsCommon(Xs) /\ MeanIsCommon(Ys)
    /\ ~IsZero(coordinates[1][1]) /\ ~IsZero(coordinates[1][2])
    /\ result = Zero

====
